---- MODULE Spec2Model ----
(***************************************************************************)
(* A model of the catshadow client (src/client.go): the contact store, the *)
(* PANDA key-exchange updates, the send pipeline with retransmission, the  *)
(* handlers of the session's sent / reply / garbage-collect events, trial  *)
(* decryption, conversation garbage collection and the state snapshot.     *)
(*                                                                         *)
(* One action is one whole handler of the worker goroutine.  A handler     *)
(* that panics leaves loop = "panicked"; a handler that blocks forever on  *)
(* the conversations mutex it already holds leaves loop = "deadlocked".    *)
(* Both are final for the worker: every handler is guarded by              *)
(* loop = "running".                                                       *)
(*                                                                         *)
(* Shutdown runs on its caller's goroutine.  Its c.save() reads the state  *)
(* the worker writes, line by line beside the worker: the range over       *)
(* c.contacts entry by entry, the encoding between taking and releasing    *)
(* conversationsMutex.  The variable worker tells which handler the worker *)
(* is inside, and marshalRacing what a read can find there.  The event     *)
(* sink is a goroutine of its own, with the event it holds in hand.        *)
(***************************************************************************)
EXTENDS Integers, Sequences, FiniteSets, TLC

(***************************************************************************)
(* Bounds of the model.                                                    *)
(***************************************************************************)
MaxId == 2          \* contact ids drawn by randID are 1..MaxId
MaxRefs == 2        \* Contact objects alive at the same time
MaxTasks == 1       \* key-exchange goroutines running at the same time
MaxMids == 3        \* conversation message ids handed out
MaxTids == 3        \* transport message ids handed out by the session
MaxTicks == 1       \* advances of the wall clock
MaxEvents == 2      \* events the subscriber has not received yet
MaxWaiting == 1     \* the same, in the runs of the contact store
MaxOffset == 2      \* read offsets reached (InitialReadOffset + MaxOffset)
MaxMissingMessages == 3   \* ratchet.MaxMissingMessages, scaled down
DoubleRatchetPayloadLength == 6   \* the ratchet payload size, scaled down
MaxConv == 5        \* messages of the conversation handed to doRetransmit
MaxGC == 2          \* messages of the conversation handed to the garbage collection
MaxCalls == 2       \* calls of Shutdown
MaxReads == 2       \* OK responses to reads of the spool that are handled

(***************************************************************************)
(* Program constants.                                                      *)
(***************************************************************************)
\* MaxInFlight is the value the send pipeline compares UnACKed with
\* (client.go:523).
MaxInFlight == MaxMissingMessages - 1
\* someLimit of doRetransmit (client.go:577).
someLimit == 4
\* MessageExpirationDuration, in hours.
MessageExpirationDuration == 168
\* ReadOffset of a new read descriptor (CreateRemoteSpool).
InitialReadOffset == 1

Nicks == {"alice", "bob"}   \* nicknames given to add_contact / remove_contact
Ghost == "ghost"            \* a nickname never given to add_contact
User == "me"                \* c.user
Peer == "alice"             \* the contact of the messaging runs
SendNicks == {Peer, Ghost}
Ids == 1..MaxId
Refs == 1..MaxRefs
KxBlobs == {1, 2}           \* serialized PANDA key-exchange states; 0 is nil
InitialKx == 1              \* kx.Marshal() of a new key exchange
NULL == 0

VARIABLES
    contacts,            \* c.contacts: id -> Contact object
    contactNicknames,    \* c.contactNicknames: nickname -> Contact object
    obj,                 \* the Contact objects the two maps point to
    closedChans,         \* pandaShutdownChan channels that were closed
    tasks,               \* running key-exchange goroutines: [id, chan]
    conversations,       \* c.conversations: nickname -> (MessageID -> Message)
    sendMap,             \* c.sendMap: transport id -> SentMessageDescriptor
    readOffset,          \* c.spoolReadDescriptor.ReadOffset
    reads,               \* the OK read responses handled (695), each with the offset it met
    events,              \* c.eventCh: the events eventSinkWorker has not taken yet
    persisted,           \* the last snapshot handed to stateWorker.writeState
    loop,                \* "running" | "blocked" | "deadlocked" | "panicked" | "halted"
    fatal,               \* an error was sent on fatalErrCh
    shutdownSteps,       \* the steps of Shutdown done so far, each as it was first done
    shutdownCalls,       \* the calls of Shutdown: the line each is at, and what it marshalled
    worker,              \* the handler the worker goroutine is inside, <<>> between handlers
    hand,                \* the event eventSinkWorker has taken and not yet handed over
    now, ticks,          \* wall clock (hours) and the number of its advances
    nextMid, nextTid     \* next fresh conversation id / transport id

vars == <<contacts, contactNicknames, obj, closedChans, tasks, conversations,
          sendMap, readOffset, reads, events, persisted, loop, fatal, shutdownSteps,
          shutdownCalls, worker, hand, now, ticks, nextMid, nextTid>>

(***************************************************************************)
(* Go maps as functions with a finite domain.                              *)
(***************************************************************************)
EmptyMap == [x \in {} |-> NULL]
MapPut(f, k, v) == [x \in (DOMAIN f) \cup {k} |-> IF x = k THEN v ELSE f[x]]
MapDel(f, k) == [x \in (DOMAIN f) \ {k} |-> f[x]]
Range(f) == {f[x] : x \in DOMAIN f}
Min(S) == CHOOSE x \in S : \A y \in S : x <= y

\* The worker is between two handlers, or inside the handler tag names (with
\* the inputs it was called with).
InHandler(tag) == IF worker = <<>> THEN TRUE ELSE worker = tag

\* The same, for input n of the handler.
HandlerInput(n, v) == IF worker = <<>> THEN TRUE ELSE worker[n] = v

(***************************************************************************)
(* Contacts.                                                               *)
(***************************************************************************)
\* NewContact of contact.go: a pending contact with its own shutdown channel
\* (named by the object's reference), its exchange blob and a fresh ratchet.
NewContactRec(nickname, id, ref) ==
    [id |-> id, Nickname |-> nickname, IsPending |-> TRUE,
     keyExchange |-> TRUE, pandaKeyExchange |-> NULL, pandaResult |-> "",
     pandaShutdownChan |-> ref, spoolWriteDescriptor |-> NULL,
     UnACKed |-> 0, ratchet |-> "new", ratchetOps |-> 0]

\* The Contact pointers held by the calls of Shutdown whose c.marshal() has
\* collected them (357-359) and not yet encoded them (370).
Held(calls) == UNION {calls[k].Contacts : k \in DOMAIN calls}

\* References no map, no running task and no marshal holds.
FreeRefs ==
    {r \in Refs : /\ r \notin Range(contacts)
                  /\ r \notin Range(contactNicknames)
                  /\ r \notin Held(shutdownCalls)
                  /\ \A t \in tasks : t.chan # r}

\* The objects still referenced by one of the two maps or by a marshal.
CollectHeld(o, cs, cn, calls) ==
    [r \in (DOMAIN o) \cap (Range(cs) \cup Range(cn) \cup Held(calls)) |-> o[r]]
Collect(o, cs, cn) == CollectHeld(o, cs, cn, shutdownCalls)

\* Contact.MarshalBinary: everything but the shutdown channel.
ContactState(c) == [f \in (DOMAIN c) \ {"pandaShutdownChan"} |-> c[f]]

\* Client.marshal, lines 360-370: the State encoded from the Contact
\* pointers collected and the memory they, c.conversations and
\* c.spoolReadDescriptor point to.
cborMarshal(list, o, conv, off) ==
    [Contacts |-> {ContactState(o[r]) : r \in list},
     Conversations |-> conv,
     ReadOffset |-> off]

\* Client.marshal run in one piece: the State that save() serializes on the
\* worker's goroutine.
marshal(cs, o, conv, off) == cborMarshal(Range(cs), o, conv, off)

Snapshot == marshal(contacts, obj, conversations, readOffset)

\* The events the subscriber has not received yet, in eventCh or in the hand
\* of eventSinkWorker, stay within the bound.
CanEmit == Len(events) + Len(hand) < MaxEvents

KeyExchangeCompletedEvent(nick, err) ==
    [type |-> "KeyExchangeCompleted", Nickname |-> nick, mid |-> NULL, Err |-> err]
MessageSentEvent(nick, mid) ==
    [type |-> "MessageSent", Nickname |-> nick, mid |-> mid, Err |-> ""]
MessageDeliveredEvent(nick, mid) ==
    [type |-> "MessageDelivered", Nickname |-> nick, mid |-> mid, Err |-> ""]
MessageReceivedEvent(nick) ==
    [type |-> "MessageReceived", Nickname |-> nick, mid |-> NULL, Err |-> ""]

\* randID: a non-zero id that is not a key of c.contacts.
randID(cs) == Ids \ DOMAIN cs

\* createContact, lines 289-290: file the new object under both keys.
createContactInsertOnlyById(cs, cn, nickname, id, ref) ==
    [byId |-> MapPut(cs, id, ref), byNick |-> cn]
createContactInsert(cs, cn, nickname, id, ref) ==
    [byId |-> MapPut(cs, id, ref), byNick |-> MapPut(cn, nickname, ref)]

\* createContact, lines 282-284: the nickname is taken.
createContactExistsNever(cn, nickname) == FALSE
createContactExists(cn, nickname) == nickname \in DOMAIN cn

\* doContactRemoval, lines 338-339: drop the contact from both maps.
doContactRemovalDeleteOnlyNickname(cs, cn, nickname) ==
    [byId |-> cs, byNick |-> MapDel(cn, nickname)]
doContactRemovalDelete(cs, cn, nickname) ==
    [byId |-> MapDel(cs, obj[cn[nickname]].id), byNick |-> MapDel(cn, nickname)]

(***************************************************************************)
(* Key-exchange updates.                                                   *)
(***************************************************************************)
UpdateKinds == {"timeout", "failure", "progress", "good", "unparseable", "rejected"}

\* processPANDAUpdate, lines 440-467: a result blob that does not parse, or
\* that the ratchet rejects.
processPANDAUpdateResultErrorKeepsPending(contact, err) ==
    [contact EXCEPT !.pandaKeyExchange = NULL, !.pandaResult = err]
processPANDAUpdateResultError(contact, err) ==
    [contact EXCEPT !.pandaKeyExchange = NULL, !.pandaResult = err,
                    !.IsPending = FALSE]

\* processPANDAUpdate, lines 468-469: the exchange completed.
processPANDAUpdateResultOk(contact) ==
    [contact EXCEPT !.pandaKeyExchange = NULL, !.spoolWriteDescriptor = contact.id,
                    !.IsPending = FALSE, !.ratchet = "keyed"]

\* processPANDAUpdate, lines 420-421: an error update.
processPANDAUpdateErr(contact, err) ==
    [contact EXCEPT !.pandaResult = err, !.pandaShutdownChan = NULL]

\* processPANDAUpdate, line 428: the update echoes the stored exchange bytes.
processPANDAUpdateEchoAlways(contact, blob) == TRUE
processPANDAUpdateEcho(contact, blob) == contact.pandaKeyExchange = blob

\* processPANDAUpdate is at its last statement, c.save() of line 475, with
\* the event of line 423 or 471 already handed to eventCh.
AtSave == <<"save", 475>>

\* The worker inside createContact, before the c.save() of line 305, and
\* inside doContactRemoval, before the c.save() of line 340.
AtCreateSave == <<"save", 305>>
AtRemovalSave == <<"save", 340>>

(***************************************************************************)
(* Conversations.                                                          *)
(***************************************************************************)
OutMessage(ts) ==
    [Plaintext |-> "payload", Ciphertext |-> <<>>, Timestamp |-> ts,
     Outbound |-> TRUE, Sent |-> FALSE, Delivered |-> FALSE]
InMessage(ts) ==
    [Plaintext |-> "payload", Ciphertext |-> <<>>, Timestamp |-> ts,
     Outbound |-> FALSE, Sent |-> FALSE, Delivered |-> FALSE]

HasMessage(conv, nick, mid) == nick \in DOMAIN conv /\ mid \in DOMAIN conv[nick]

\* c.conversations[nickname][mid] = msg, making the inner map when missing.
ConvPut(conv, nick, mid, msg) ==
    MapPut(conv, nick, MapPut(IF nick \in DOMAIN conv THEN conv[nick] ELSE EmptyMap, mid, msg))

\* save() called by a handler that holds conversationsMutex: marshal calls
\* GetAllConversations, which locks the same mutex again (lines 366, 724).
saveHoldingMutexReentrant == "running"
saveHoldingMutex == "deadlocked"

(***************************************************************************)
(* Retransmission.                                                         *)
(***************************************************************************)
RECURSIVE Pow2Ceil(_, _)
Pow2Ceil(n, p) == IF p >= n THEN p ELSE Pow2Ceil(n, 2 * p)
\* Capacity of a slice grown from empty by n appends of one pointer.
SliceCap(n) == IF n = 0 THEN 0 ELSE Pow2Ceil(n, 1)

\* Messages.Less
Less(convMap, a, b) == convMap[a].Timestamp < convMap[b].Timestamp

\* The orders sort.Sort can leave rTx in: no element before one that is Less.
SortedOrders(convMap, S) ==
    {s \in [1..Cardinality(S) -> S] :
        /\ \A i, j \in 1..Cardinality(S) : i # j => s[i] # s[j]
        /\ \A i, j \in 1..Cardinality(S) : i < j => ~Less(convMap, s[j], s[i])}

\* doRetransmit, lines 568-573: the messages to retransmit.
doRetransmitFilter(convMap) ==
    {m \in DOMAIN convMap :
        convMap[m].Outbound /\ ~convMap[m].Delivered /\ convMap[m].Sent}

\* doRetransmit: the outcomes, each the conversation ids resubmitted in order
\* and whether the call panicked.  failAt: the iteration whose AppendToSpool or
\* SendUnreliableMessage returns an error (0: none).
doRetransmit(conv, contact, failAt) ==
    IF contact.Nickname \notin DOMAIN conv
    THEN {[resent |-> <<>>, panic |-> FALSE]}
    ELSE LET convMap == conv[contact.Nickname]
             rTx == doRetransmitFilter(convMap)
             n == Cardinality(rTx)
             k == IF n < someLimit THEN n ELSE someLimit
         IN IF SliceCap(n) < someLimit
            THEN \* rTx[:someLimit] is out of range
                 {[resent |-> <<>>, panic |-> TRUE]}
            ELSE IF contact.spoolWriteDescriptor = NULL
            THEN {[resent |-> <<>>, panic |-> TRUE]}
            ELSE {IF failAt \in 1..k
                  THEN [resent |-> SubSeq(s, 1, failAt - 1), panic |-> FALSE]
                  ELSE [resent |-> SubSeq(s, 1, k),
                        \* the slots between len and someLimit hold nil
                        panic |-> n < someLimit]
                  : s \in SortedOrders(convMap, rTx)}

\* sendMap after the resubmissions got the transport ids from first on.
StoreResent(sm, nick, resent, first) ==
    [t \in (DOMAIN sm) \cup {first + i - 1 : i \in 1..Len(resent)} |->
        IF t \in DOMAIN sm /\ ~(t >= first /\ t < first + Len(resent))
        THEN sm[t]
        ELSE [Nickname |-> nick, MessageID |-> resent[t - first + 1]]]

(***************************************************************************)
(* The send pipeline.                                                      *)
(***************************************************************************)
\* doSendMessage, line 523: the in-flight window is full.
doSendMessageSaturatedOffByOne(contact) == contact.UnACKed = MaxMissingMessages
doSendMessageSaturated(contact) == contact.UnACKed = MaxInFlight

\* doSendMessage, lines 509-517: no contact to send to.
doSendMessageNoContactPendingSends(cn, o, nickname) == nickname \notin DOMAIN cn
doSendMessageNoContact(cn, o, nickname) ==
    \/ nickname \notin DOMAIN cn
    \/ o[cn[nickname]].IsPending

\* doSendMessage, lines 530-534: the frame handed to the ratchet, as the
\* length its prefix announces and the number of message bytes it carries
\* (copy stops at the end of the fixed buffer).
Frame(len) == <<len, Min({len, DoubleRatchetPayloadLength - 4})>>

\* Message lengths: short, the longest that fits, one byte more.
MsgLens == {1, DoubleRatchetPayloadLength - 4, DoubleRatchetPayloadLength - 3}

\* doSendMessage, lines 523-526: what the retransmission of a full window
\* does before the new message is encrypted.
NoRetransmit == [resent |-> <<>>, panic |-> FALSE]
doSendMessageRetransmit(nickname, failAt) ==
    IF doSendMessageNoContact(contactNicknames, obj, nickname)
    THEN {NoRetransmit}
    ELSE LET contact == obj[contactNicknames[nickname]]
         IN IF doSendMessageSaturated(contact)
            THEN doRetransmit(ConvPut(conversations, nickname, nextMid, OutMessage(now)),
                              contact, failAt)
            ELSE {NoRetransmit}

(***************************************************************************)
(* Session events.                                                         *)
(***************************************************************************)
Tids == 1..MaxTids

\* handleReply, line 653, and garbageCollectSendMap, line 618: Delete is given
\* the event's MessageID, a pointer to the array, while the entries are stored
\* under the array itself (lines 550, 590, 613): no entry has that key.
sendMapDeleteByValue(sm, tid) == MapDel(sm, tid)
sendMapDelete(sm, tid) == sm

\* Ciphertexts found in the read spool: the Contact objects whose ratchet
\* decrypts it and whether the length prefix of the frame fits the payload.
Ciphertexts == [keys : SUBSET Refs, frameOk : BOOLEAN]

\* ratchet.Decrypt succeeds for the contact.
Decrypts(o, ref, ct) == ref \in ct.keys

\* decryptMessage, lines 734-753: the contacts tried that decrypt ct.
decryptMessageTriesPending(cs, o, ct) ==
    {i \in DOMAIN cs : Decrypts(o, cs[i], ct)}
decryptMessageTries(cs, o, ct) ==
    {i \in DOMAIN cs : ~o[cs[i]].IsPending /\ Decrypts(o, cs[i], ct)}

\* IncrementOffset.  ReadOffset is a uint32; the offsets reached here stay far
\* from its wrap.
IncrementOffset(off) == off + 1

\* handleReply, lines 698-708: the read offset after a read response with
\* message id respId.
handleReplyOffsetAnyId(off, respId) == IncrementOffset(off)
handleReplyOffset(off, respId) == IF respId = off THEN IncrementOffset(off) ELSE off

\* Spool responses: "garbage" does not parse, "error" has a status that is
\* not OK, "ok" carries message id respId and, for a read, ciphertext ct.
ReplyKinds == {"garbage", "error", "ok"}

(***************************************************************************)
(* Conversation garbage collection and the clock.                          *)
(***************************************************************************)
\* garbageCollectConversations, line 223: the message expired.
ExpiredAtDeadline(msg, t) == t >= msg.Timestamp + MessageExpirationDuration
Expired(msg, t) == t > msg.Timestamp + MessageExpirationDuration

\* garbageCollectConversations, lines 217-227.
garbageCollect(conv, t) ==
    [n \in DOMAIN conv |->
        [m \in {x \in DOMAIN conv[n] : ~Expired(conv[n][x], t)} |->
            IF conv[n][m].Outbound /\ conv[n][m].Delivered
            THEN [conv[n][m] EXCEPT !.Ciphertext = <<>>]
            ELSE conv[n][m]]]

(***************************************************************************)
(* The worker's position, and what another goroutine's c.marshal() finds   *)
(* while the worker is inside a handler.                                   *)
(*                                                                         *)
(* marshal collects the Contact pointers by ranging over c.contacts with   *)
(* no lock (357-359), one entry at a time while the worker runs.  It then  *)
(* takes and releases conversationsMutex (366), takes it again (368) and   *)
(* encodes the contacts collected, the conversations and the read          *)
(* descriptor (370).  While it holds the mutex the worker goes on up to    *)
(* the next line that takes the mutex, its own c.save() included.  The     *)
(* worker writes the fields of a Contact, the Ciphertext of a filed        *)
(* message (534) and the read offset (702) without the mutex: the encoding *)
(* finds any value they had since line 368, field by field.  It files      *)
(* messages under the mutex (501-507, 761-767): the encoding has a message *)
(* filed or not.                                                           *)
(***************************************************************************)
\* A Contact read while the worker takes it from pre to post.
Torn(pre, post) ==
    {[f \in DOMAIN pre |-> IF f \in S THEN post[f] ELSE pre[f]] :
        S \in SUBSET {f \in DOMAIN pre : pre[f] # post[f]}}

\* The memory an encoding reads: the Contact objects, the conversations and
\* the read offset.
View(o, conv, off) == [o |-> o, conv |-> conv, off |-> off]
Memory == View(obj, conversations, readOffset)

\* createContact between line 289 and its return, for the Contact ref that
\* NewContact returned.
createContactRacing(nickname, id, newErr, cfgNil, kxErr, ref) ==
    IF \/ createContactExists(contactNicknames, nickname) \/ newErr
       \/ id \notin randID(contacts)
    THEN {}
    ELSE LET c0  == NewContactRec(nickname, id, ref)
             c1  == [c0 EXCEPT !.pandaKeyExchange = InitialKx, !.keyExchange = FALSE]
         IN {View(MapPut(obj, ref, c), conversations, readOffset) :
                c \in IF cfgNil \/ kxErr THEN {c0} ELSE Torn(c0, c1)}

\* processPANDAUpdate between its first write to the contact and its event
\* or save.
processPANDAUpdateRacing(t, kind, blob, cfgNil) ==
    IF t \notin tasks \/ t.id \notin DOMAIN contacts
    THEN {}
    ELSE LET ref == contacts[t.id]
             contact == obj[ref]
             post == CASE kind = "timeout" ->
                            IF cfgNil \/ contact.pandaKeyExchange = NULL
                            THEN contact
                            ELSE processPANDAUpdateErr(contact, kind)
                       [] kind = "failure" -> processPANDAUpdateErr(contact, kind)
                       [] kind = "progress" ->
                            IF processPANDAUpdateEcho(contact, blob)
                            THEN contact
                            ELSE [contact EXCEPT !.pandaKeyExchange = blob]
                       [] kind \in {"unparseable", "rejected"} ->
                            processPANDAUpdateResultError(contact, kind)
                       [] kind = "good" -> processPANDAUpdateResultOk(contact)
         IN {View(MapPut(obj, ref, c), conversations, readOffset) :
                c \in Torn(contact, post) \ {contact}}

\* doSendMessage between line 507 and its return.
doSendMessageRacing(nickname, len, sendErr, failAt, out) ==
    IF nextMid > MaxMids \/ out \notin doSendMessageRetransmit(nickname, failAt)
    THEN {}
    ELSE LET mid == nextMid
             conv1 == ConvPut(conversations, nickname, mid, OutMessage(now))
             conv2 == ConvPut(conv1, nickname, mid,
                              [OutMessage(now) EXCEPT !.Ciphertext = Frame(len)])
         IN IF doSendMessageNoContact(contactNicknames, obj, nickname) \/ out.panic
            THEN {View(obj, conv1, readOffset)}
            ELSE LET ref == contactNicknames[nickname]
                     contact == obj[ref]
                     post == IF contact.spoolWriteDescriptor = NULL \/ sendErr
                             THEN [contact EXCEPT !.ratchetOps = @ + 1]
                             ELSE [contact EXCEPT !.ratchetOps = @ + 1, !.UnACKed = @ + 1]
                 IN {View(MapPut(obj, ref, c), conv, readOffset) :
                        c \in Torn(contact, post), conv \in {conv1, conv2}}

\* handleReply with the response to a read of the tip, between line 702 and
\* the filing of the message (761-767).  i: the contact that decrypts, 0 for
\* none.
handleReplyRacing(tid, respId, ct, i) ==
    IF \/ tid \notin DOMAIN sendMap
       \/ respId # readOffset
       \/ readOffset >= InitialReadOffset + MaxOffset
    THEN {}
    ELSE IF sendMap[tid].Nickname # User
    THEN {}
    ELSE LET tries == decryptMessageTries(contacts, obj, ct)
         IN IF tries = {}
            THEN IF i = 0
                 THEN {View(obj, conversations, handleReplyOffset(readOffset, respId))}
                 ELSE {}
            ELSE IF i \notin tries
            THEN {}
            ELSE LET ref == contacts[i]
                 IN {View(MapPut(obj, ref, c), conversations, off) :
                        c \in Torn(obj[ref], [obj[ref] EXCEPT !.ratchetOps = @ + 1]),
                        off \in {readOffset, handleReplyOffset(readOffset, respId)}}
                    \ {Memory}

\* What the encoding of line 370 can read, besides the memory as the last
\* handler left it, while the worker is inside the handler tag.
marshalRacing(tag) ==
    CASE tag[1] = "createContact" ->
            createContactRacing(tag[2], tag[3], tag[4], tag[5], tag[6], tag[7])
      [] tag[1] = "processPANDAUpdate" ->
            processPANDAUpdateRacing(tag[2], tag[3], tag[4], tag[5])
      [] tag[1] = "doSendMessage" ->
            doSendMessageRacing(tag[2], tag[3], tag[4], tag[5], tag[6])
      [] tag[1] = "handleReply" -> handleReplyRacing(tag[2], tag[3], tag[4], tag[5])
      [] OTHER -> {}

\* The Contact pointer the map c.contacts may hold already while the worker
\* is inside the handler tag: createContact inserts (289).
rangeInserted(tag) ==
    IF tag[1] = "createContact"
    THEN IF createContactRacing(tag[2], tag[3], tag[4], tag[5], tag[6], tag[7]) = {}
         THEN {}
         ELSE {tag[7]}
    ELSE {}

\* The Contact pointer the map c.contacts may have lost already while the
\* worker is inside the handler tag: doContactRemoval deletes (339).
rangeDeleted(tag) ==
    IF tag[1] = "doContactRemoval" /\ tag[2] \in DOMAIN contactNicknames
    THEN Range(contacts)
            \ Range(doContactRemovalDelete(contacts, contactNicknames, tag[2]).byId)
    ELSE {}

\* The handler writes the map c.contacts that marshal ranges over: the
\* runtime can end the process with "concurrent map iteration and map
\* write".
marshalMapRace(tag) == rangeInserted(tag) \cup rangeDeleted(tag) # {}

\* What a goroutine that reads the memory now can find.  Inside
\* doSendMessage the worker is past line 507: the message is filed.
Visible ==
    IF worker = <<>> THEN {Memory}
    ELSE IF worker[1] = "doSendMessage" THEN marshalRacing(worker)
    ELSE {Memory} \cup marshalRacing(worker)

\* A call of Shutdown: who called and the line the call is at; inside the
\* range of c.marshal() (357-359), the Contact pointers of the map it has
\* still to reach (todo) and those collected (Contacts); between lines 368
\* and 370, with conversationsMutex held, the values the encoding can read:
\* those each field of the Contacts collected (objs), c.conversations
\* (convs) and the read offset (offs) have had since the mutex was taken;
\* then the bytes c.marshal() returned (until writeState has taken them).
ShutdownCall(by, pc) ==
    [by |-> by, pc |-> pc, todo |-> {}, Contacts |-> {}, objs |-> EmptyMap,
     convs |-> {}, offs |-> {}, serialized |-> <<>>]

\* No call of Shutdown holds conversationsMutex (368-370): the worker can
\* take it.  (The worker's own handlers are done with the mutex when their
\* step ends, or keep it for ever: loop = "deadlocked".)
MutexFree == \A k \in DOMAIN shutdownCalls : shutdownCalls[k].pc # 370

\* The values of the Contact r found in views.
Versions(views, r) == {v.o[r] : v \in {w \in views : r \in DOMAIN w.o}}

\* The values the fields of a Contact have in the records S.
FieldValues(S) ==
    [f \in DOMAIN NewContactRec(Peer, 1, 1) |-> {c[f] : c \in S}]

\* The same, beside the values V found before.
MoreFieldValues(V, S) == [f \in DOMAIN V |-> V[f] \cup {c[f] : c \in S}]

\* What a step of the worker does to a call of Shutdown that is inside
\* c.marshal(): the range will not reach an entry deleted from the map cs
\* (339); the encoding can read what the step makes visible.
Observed(call, cs, views) ==
    CASE call.pc = 357 -> [call EXCEPT !.todo = @ \cap Range(cs)]
      [] call.pc = 370 ->
            [call EXCEPT !.objs = [r \in DOMAIN @ |->
                                      MoreFieldValues(@[r], Versions(views, r))],
                         !.convs = @ \cup {v.conv : v \in views},
                         !.offs = @ \cup {v.off : v \in views}]
      [] OTHER -> call

\* The step of the worker as the calls of Shutdown see it.
Observe ==
    shutdownCalls' =
        [k \in DOMAIN shutdownCalls |-> Observed(shutdownCalls[k], contacts', Visible')]

(***************************************************************************)
(* The handlers of the worker.                                             *)
(***************************************************************************)
\* add_contact: the worker runs createContact and reports an error as a
\* KeyExchangeCompleted event.  id: what randID draws; newErr: NewContact fails; cfgNil:
\* GetPandaConfig returns nil; kxErr: panda.NewKeyExchange fails.
AddContact(nickname, id, newErr, cfgNil, kxErr) ==
    /\ loop = "running"
    /\ IF worker = <<>> THEN TRUE
       ELSE /\ worker[1] = "createContact"
            /\ SubSeq(worker, 1, 6) = <<"createContact", nickname, id, newErr, cfgNil, kxErr>>
    /\ IF createContactExists(contactNicknames, nickname) \/ newErr
       THEN /\ CanEmit
            /\ events' = Append(events, KeyExchangeCompletedEvent(nickname,
                    IF createContactExists(contactNicknames, nickname)
                    THEN "nickname exists" ELSE "NewContact failed"))
            /\ worker' = <<>>
            /\ UNCHANGED <<contacts, contactNicknames, obj, closedChans, tasks, persisted>>
       ELSE /\ IF worker = <<>> THEN FreeRefs # {} ELSE TRUE
            /\ id \in randID(contacts)
            /\   LET ref == IF worker = <<>> THEN Min(FreeRefs) ELSE worker[7]
                     blob == InitialKx
                     ins == createContactInsert(contacts, contactNicknames, nickname, id, ref)
                     c0  == NewContactRec(nickname, id, ref)
                     c1  == [c0 EXCEPT !.pandaKeyExchange = blob, !.keyExchange = FALSE]
                     o0  == Collect(MapPut(obj, ref, c0), ins.byId, ins.byNick)
                     o1  == Collect(MapPut(obj, ref, c1), ins.byId, ins.byNick)
                 IN /\ contacts' = ins.byId
                    /\ contactNicknames' = ins.byNick
                    /\ closedChans' = closedChans \ {ref}
                    /\ IF cfgNil \/ kxErr
                       THEN /\ CanEmit
                            /\ obj' = o0
                            /\ events' = Append(events, KeyExchangeCompletedEvent(nickname,
                                    IF cfgNil THEN "no panda config" ELSE "NewKeyExchange failed"))
                            /\ worker' = <<>>
                            /\ UNCHANGED <<tasks, persisted>>
                       ELSE /\ Cardinality(tasks) < MaxTasks
                            /\ obj' = o1
                            /\ tasks' = tasks \cup {[id |-> id, chan |-> ref]}
                            /\ UNCHANGED events
                            \* c.save() (305) follows at once, or the worker
                            \* is seen before it, kx.Run() started (304)
                            /\ \/ /\ MutexFree
                                  /\ persisted' = marshal(ins.byId, o1, conversations, readOffset)
                                  /\ worker' = <<>>
                               \/ /\ worker # <<>>
                                  /\ worker' = AtCreateSave
                                  /\ UNCHANGED persisted
    /\ UNCHANGED <<conversations, sendMap, readOffset, reads, loop, fatal, shutdownSteps,
                   hand, now, ticks, nextMid, nextTid>>
    /\ Observe

\* remove_contact: the worker runs doContactRemoval.
RemoveContact(nickname) ==
    /\ loop = "running"
    /\ InHandler(<<"doContactRemoval", nickname>>)
    /\ IF nickname \notin DOMAIN contactNicknames
       THEN /\ worker' = <<>>
            /\ UNCHANGED <<contacts, contactNicknames, obj, closedChans, persisted>>
       ELSE LET contact == obj[contactNicknames[nickname]]
                del == doContactRemovalDelete(contacts, contactNicknames, nickname)
                o1  == Collect(obj, del.byId, del.byNick)
            IN /\ closedChans' =
                    IF contact.IsPending /\ contact.pandaShutdownChan # NULL
                    THEN closedChans \cup {contact.pandaShutdownChan}
                    ELSE closedChans
               /\ contacts' = del.byId
               /\ contactNicknames' = del.byNick
               /\ obj' = o1
               \* c.save() (340) follows at once, or the worker is seen
               \* before it, the channel closed (335) and the maps cut
               /\ \/ /\ MutexFree
                     /\ persisted' = marshal(del.byId, o1, conversations, readOffset)
                     /\ worker' = <<>>
                  \/ /\ worker # <<>>
                     /\ worker' = AtRemovalSave
                     /\ UNCHANGED persisted
    /\ UNCHANGED <<tasks, conversations, sendMap, readOffset, reads, events, loop, fatal,
                   shutdownSteps, hand, now, ticks, nextMid, nextTid>>
    /\ Observe

\* The key-exchange goroutine t sends one update on pandaChan and the worker
\* handles it, up to the c.save() of line 475 when it has emitted an event
\* before (lines 423, 471), to the end otherwise.  A goroutine ends with the
\* update that reports an error or a result.  cfgNil: GetPandaConfig returns
\* nil.
PandaUpdate(t, kind, blob, cfgNil) ==
    /\ loop = "running"
    /\ InHandler(<<"processPANDAUpdate", t, kind, blob, cfgNil>>)
    /\ t \in tasks
    /\ LET ended == IF kind = "progress" THEN tasks ELSE tasks \ {t}
       IN IF t.id \notin DOMAIN contacts
          THEN /\ tasks' = ended
               /\ worker' = <<>>
               /\ UNCHANGED <<obj, events, persisted, loop>>
          ELSE
            LET ref == contacts[t.id]
                contact == obj[ref]
                nick == contact.Nickname
                \* the writes, then save (446, 461, 475), then the event if any
                done(c, ev) ==
                    LET o1 == MapPut(obj, ref, c)
                    IN /\ MutexFree
                       /\ obj' = o1
                       /\ events' = events \o ev
                       /\ persisted' = marshal(contacts, o1, conversations, readOffset)
                       /\ worker' = <<>>
                       /\ UNCHANGED loop
                \* the writes, then the event (423, 471); save is still to come
                emitted(c, ev) ==
                    /\ obj' = MapPut(obj, ref, c)
                    /\ events' = Append(events, ev)
                    /\ worker' = AtSave
                    /\ UNCHANGED <<persisted, loop>>
            IN CASE kind = "timeout" ->
                      IF cfgNil \/ contact.pandaKeyExchange = NULL
                      THEN \* panic: no panda config, or the stored state does not unmarshal
                           /\ tasks' = ended
                           /\ loop' = "panicked"
                           /\ worker' = <<>>
                           /\ UNCHANGED <<obj, events, persisted>>
                      ELSE /\ CanEmit
                           /\ tasks' = ended \cup {[id |-> t.id, chan |-> contact.pandaShutdownChan]}
                           /\ emitted(processPANDAUpdateErr(contact, kind),
                                      KeyExchangeCompletedEvent(nick, kind))
                 [] kind = "failure" ->
                      /\ CanEmit
                      /\ tasks' = ended
                      /\ emitted(processPANDAUpdateErr(contact, kind),
                                 KeyExchangeCompletedEvent(nick, kind))
                 [] kind = "progress" ->
                      /\ tasks' = ended
                      /\ IF processPANDAUpdateEcho(contact, blob)
                         THEN /\ CanEmit
                              /\ events' = Append(events, KeyExchangeCompletedEvent(nick, "echo"))
                              /\ worker' = <<>>
                              /\ UNCHANGED <<obj, persisted, loop>>
                         ELSE done([contact EXCEPT !.pandaKeyExchange = blob], <<>>)
                 [] kind \in {"unparseable", "rejected"} ->
                      /\ CanEmit
                      /\ tasks' = ended
                      /\ done(processPANDAUpdateResultError(contact, kind),
                              <<KeyExchangeCompletedEvent(nick, kind)>>)
                 [] kind = "good" ->
                      /\ CanEmit
                      /\ tasks' = ended
                      /\ emitted(processPANDAUpdateResultOk(contact),
                                 KeyExchangeCompletedEvent(nick, ""))
    /\ UNCHANGED <<contacts, contactNicknames, closedChans, conversations, sendMap,
                   readOffset, reads, fatal, shutdownSteps, hand, now, ticks, nextMid, nextTid>>
    /\ Observe

\* processPANDAUpdate, line 475: the c.save() that follows the event.
processPANDAUpdateSave ==
    /\ loop = "running"
    /\ worker = AtSave
    /\ MutexFree
    /\ persisted' = Snapshot
    /\ worker' = <<>>
    /\ UNCHANGED <<contacts, contactNicknames, obj, closedChans, tasks, conversations,
                   sendMap, readOffset, reads, events, loop, fatal, shutdownSteps,
                   shutdownCalls, hand, now, ticks, nextMid, nextTid>>

\* createContact, line 305: the c.save() at its end, which waits while a
\* call of Shutdown holds conversationsMutex (366).
createContactSave ==
    /\ loop = "running"
    /\ worker = AtCreateSave
    /\ MutexFree
    /\ persisted' = Snapshot
    /\ worker' = <<>>
    /\ UNCHANGED <<contacts, contactNicknames, obj, closedChans, tasks, conversations,
                   sendMap, readOffset, reads, events, loop, fatal, shutdownSteps,
                   shutdownCalls, hand, now, ticks, nextMid, nextTid>>

\* doContactRemoval, line 340: the c.save() at its end, which waits while a
\* call of Shutdown holds conversationsMutex (366).
doContactRemovalSave ==
    /\ loop = "running"
    /\ worker = AtRemovalSave
    /\ MutexFree
    /\ persisted' = Snapshot
    /\ worker' = <<>>
    /\ UNCHANGED <<contacts, contactNicknames, obj, closedChans, tasks, conversations,
                   sendMap, readOffset, reads, events, loop, fatal, shutdownSteps,
                   shutdownCalls, hand, now, ticks, nextMid, nextTid>>

\* A key-exchange goroutine sees its shutdown channel closed and returns.
TaskExit(t) ==
    /\ t \in tasks
    /\ t.chan \in closedChans
    /\ tasks' = tasks \ {t}
    /\ UNCHANGED <<contacts, contactNicknames, obj, closedChans, conversations, sendMap,
                   readOffset, reads, events, persisted, loop, fatal, shutdownSteps,
                   shutdownCalls, worker, hand, now, ticks, nextMid, nextTid>>

\* send_message.  len: the length of the message; sendErr: AppendToSpool or
\* SendUnreliableMessage returns an error; failAt: see doRetransmit.  The
\* handler starts by taking conversationsMutex (501).
SendMessage(nickname, len, sendErr, failAt) ==
    /\ loop = "running"
    /\ HandlerInput(1, "doSendMessage")
    /\ IF worker = <<>> THEN MutexFree ELSE TRUE
    /\ nextMid <= MaxMids
    /\ nextMid' = nextMid + 1
    /\ LET mid == nextMid
           conv1 == ConvPut(conversations, nickname, mid, OutMessage(now))
       IN IF doSendMessageNoContact(contactNicknames, obj, nickname)
          THEN /\ InHandler(<<"doSendMessage", nickname, len, sendErr, failAt, NoRetransmit>>)
               /\ conversations' = conv1
               /\ UNCHANGED <<obj, sendMap, persisted, loop, nextTid>>
          ELSE
            LET ref == contactNicknames[nickname]
                contact == obj[ref]
            IN \E out \in doSendMessageRetransmit(nickname, failAt) :
                 LET k == Len(out.resent)
                     sm1 == StoreResent(sendMap, nickname, out.resent, nextTid)
                     conv2 == ConvPut(conv1, nickname, mid,
                                      [OutMessage(now) EXCEPT !.Ciphertext = Frame(len)])
                     o2 == MapPut(obj, ref, [contact EXCEPT !.ratchetOps = @ + 1])
                     o3 == MapPut(obj, ref, [contact EXCEPT !.ratchetOps = @ + 1,
                                                            !.UnACKed = @ + 1])
                     tid == nextTid + k
                 IN /\ InHandler(<<"doSendMessage", nickname, len, sendErr, failAt, out>>)
                    /\ nextTid + k <= MaxTids + 1
                    /\ IF out.panic
                       THEN /\ conversations' = conv1
                            /\ sendMap' = sm1
                            /\ nextTid' = nextTid + k
                            /\ loop' = "panicked"
                            /\ UNCHANGED <<obj, persisted>>
                       ELSE IF contact.spoolWriteDescriptor = NULL
                       THEN \* nil dereference at line 537, after Encrypt
                            /\ conversations' = conv2
                            /\ obj' = o2
                            /\ sendMap' = sm1
                            /\ nextTid' = nextTid + k
                            /\ loop' = "panicked"
                            /\ UNCHANGED persisted
                       ELSE IF sendErr
                       THEN /\ conversations' = conv2
                            /\ obj' = o2
                            /\ sendMap' = sm1
                            /\ nextTid' = nextTid + k
                            /\ UNCHANGED <<persisted, loop>>
                       ELSE /\ tid <= MaxTids
                            /\ MutexFree
                            /\ conversations' = conv2
                            /\ obj' = o3
                            /\ persisted' = marshal(contacts, o3, conv2, readOffset)
                            /\ sendMap' = MapPut(sm1, tid, [Nickname |-> nickname, MessageID |-> mid])
                            /\ nextTid' = tid + 1
                            /\ UNCHANGED loop
    /\ worker' = <<>>
    /\ UNCHANGED <<contacts, contactNicknames, closedChans, tasks, readOffset, reads, events,
                   fatal, shutdownSteps, hand, now, ticks>>
    /\ Observe

\* handleSent.  For a tracked message of a contact it takes
\* conversationsMutex (631).
HandleSent(tid) ==
    /\ loop = "running"
    /\ worker = <<>>
    /\ IF tid \notin DOMAIN sendMap
       THEN /\ UNCHANGED <<conversations, events, loop>>
       ELSE LET tp == sendMap[tid]
            IN IF tp.Nickname = User
               THEN \* ack for readInbox
                    /\ UNCHANGED <<conversations, events, loop>>
               ELSE IF HasMessage(conversations, tp.Nickname, tp.MessageID)
               THEN /\ MutexFree
                    /\ conversations' =
                         ConvPut(conversations, tp.Nickname, tp.MessageID,
                                 [conversations[tp.Nickname][tp.MessageID] EXCEPT !.Sent = TRUE])
                    /\ loop' = saveHoldingMutex
                    /\ UNCHANGED events
               ELSE /\ MutexFree
                    /\ CanEmit
                    /\ events' = Append(events, MessageSentEvent(tp.Nickname, tp.MessageID))
                    /\ UNCHANGED <<conversations, loop>>
    /\ UNCHANGED <<contacts, contactNicknames, obj, closedChans, tasks, sendMap, readOffset,
                   reads, persisted, fatal, shutdownSteps, worker, hand, now, ticks,
                   nextMid, nextTid>>
    /\ Observe

\* handleReply, lines 693-709: the response to a read of the spool, with
\* message id respId and ciphertext ct.  Line 695 logs it.  decryptMessage
\* files the message with conversationsMutex taken (761).
handleReplyRead(respId, ct) ==
    /\ Len(reads) < MaxReads
    /\ reads' = Append(reads, [id |-> respId, ct |-> ct, at |-> readOffset])
    /\ IF respId < readOffset
       THEN \* dup
            /\ readOffset' = handleReplyOffset(readOffset, respId)
            /\ UNCHANGED <<obj, conversations, events, loop, fatal, shutdownSteps, nextMid>>
       ELSE IF respId > readOffset
       THEN \* panic: response for a message id not requested yet
            /\ readOffset' = handleReplyOffset(readOffset, respId)
            /\ loop' = "panicked"
            /\ UNCHANGED <<obj, conversations, events, fatal, shutdownSteps, nextMid>>
       ELSE
         LET tries == decryptMessageTries(contacts, obj, ct)
         IN /\ readOffset < InitialReadOffset + MaxOffset
            /\ readOffset' = handleReplyOffset(readOffset, respId)
            /\ IF tries = {}
               THEN \* no contact decrypts the tip: panic at line 704
                    /\ loop' = "panicked"
                    /\ UNCHANGED <<obj, conversations, events, fatal, shutdownSteps, nextMid>>
               ELSE IF ~ct.frameOk
               THEN \* the first contact that decrypts has advanced its ratchet
                    \* (line 739); the slice plaintext[4 : 4+payloadLen] is out
                    \* of range and panics at line 748
                    \E i \in tries :
                    /\ HandlerInput(5, i)
                    /\ obj' = MapPut(obj, contacts[i],
                                     [obj[contacts[i]] EXCEPT !.ratchetOps = @ + 1])
                    /\ loop' = "panicked"
                    /\ UNCHANGED <<conversations, events, fatal, shutdownSteps, nextMid>>
               ELSE \E i \in tries :
                    \* the first contact of the map's iteration that decrypts
                    LET ref == contacts[i]
                    IN /\ HandlerInput(5, i)
                       /\ nextMid <= MaxMids
                       /\ CanEmit
                       /\ MutexFree
                       /\ obj' = MapPut(obj, ref, [obj[ref] EXCEPT !.ratchetOps = @ + 1])
                       /\ conversations' =
                            ConvPut(conversations, obj[ref].Nickname, nextMid, InMessage(now))
                       /\ nextMid' = nextMid + 1
                       /\ events' = Append(events, MessageReceivedEvent(obj[ref].Nickname))
                       /\ UNCHANGED <<loop, fatal, shutdownSteps>>

\* handleReply.  For the reply to a write it takes conversationsMutex (670).
HandleReply(tid, kind) ==
    /\ loop = "running"
    /\ HandlerInput(1, "handleReply")
    /\ HandlerInput(2, tid)
    /\ IF tid \notin DOMAIN sendMap
       THEN /\ UNCHANGED <<obj, conversations, sendMap, readOffset, reads, events, loop, fatal,
                           shutdownSteps, nextMid>>
       ELSE
         LET tp == sendMap[tid]
             nick == tp.Nickname
         IN /\ sendMap' = sendMapDelete(sendMap, tid)
            /\ CASE kind = "garbage" ->
                    /\ fatal' = TRUE
                    /\ loop' = IF fatal THEN "blocked" ELSE loop
                    /\ UNCHANGED shutdownSteps
                    /\ UNCHANGED <<obj, conversations, readOffset, reads, events, nextMid>>
                 [] kind = "error" ->
                    /\ UNCHANGED <<obj, conversations, readOffset, reads, events, loop, fatal,
                                   shutdownSteps, nextMid>>
                 [] kind = "ok" /\ nick # User ->
                    /\ MutexFree
                    /\ UNCHANGED reads
                    /\ IF HasMessage(conversations, nick, tp.MessageID)
                       THEN IF nick \in DOMAIN contactNicknames
                               /\ obj[contactNicknames[nick]].UnACKed > 0
                            THEN LET ref == contactNicknames[nick]
                                 IN /\ obj' = MapPut(obj, ref, [obj[ref] EXCEPT !.UnACKed = @ - 1])
                                    /\ conversations' =
                                         ConvPut(conversations, nick, tp.MessageID,
                                                 [conversations[nick][tp.MessageID]
                                                    EXCEPT !.Delivered = TRUE, !.Ciphertext = <<>>])
                                    /\ loop' = saveHoldingMutex
                                    /\ UNCHANGED <<readOffset, events, fatal, shutdownSteps, nextMid>>
                            ELSE \* panic("bug")
                                 /\ loop' = "panicked"
                                 /\ UNCHANGED <<obj, conversations, readOffset, events, fatal,
                                                shutdownSteps, nextMid>>
                       ELSE /\ CanEmit
                            /\ events' = Append(events, MessageDeliveredEvent(nick, tp.MessageID))
                            /\ UNCHANGED <<obj, conversations, readOffset, loop, fatal,
                                           shutdownSteps, nextMid>>
                 [] kind = "ok" /\ nick = User ->
                    \E respId \in {readOffset - 1, readOffset, readOffset + 1} :
                    \E ct \in Ciphertexts :
                       /\ HandlerInput(3, respId)
                       /\ HandlerInput(4, ct)
                       /\ handleReplyRead(respId, ct)
    /\ worker' = <<>>
    /\ UNCHANGED <<contacts, contactNicknames, closedChans, tasks, persisted, hand, now, ticks,
                   nextTid>>
    /\ Observe

\* garbageCollectSendMap, line 618, after the log of line 617.
HandleGC(tid) ==
    /\ loop = "running"
    /\ InHandler(<<"garbageCollectSendMap", tid>>)
    /\ sendMap' = sendMapDelete(sendMap, tid)
    /\ worker' = <<>>
    /\ UNCHANGED <<contacts, contactNicknames, obj, closedChans, tasks, conversations,
                   readOffset, reads, events, persisted, loop, fatal, shutdownSteps,
                   shutdownCalls, hand, now, ticks, nextMid, nextTid>>

\* sendReadInbox.  cmdErr: ReadFromSpool fails; sendErr: SendUnreliableMessage
\* fails.
ReadInbox(cmdErr, sendErr) ==
    /\ loop = "running"
    /\ worker = <<>>
    /\ IF cmdErr
       THEN /\ fatal' = TRUE
            /\ loop' = IF fatal THEN "blocked" ELSE loop
            /\ UNCHANGED shutdownSteps
            /\ UNCHANGED <<sendMap, nextTid>>
       ELSE IF sendErr
       THEN /\ UNCHANGED <<sendMap, nextTid, fatal, shutdownSteps, loop>>
       ELSE /\ nextTid <= MaxTids
            /\ sendMap' = MapPut(sendMap, nextTid, [Nickname |-> User, MessageID |-> readOffset])
            /\ nextTid' = nextTid + 1
            /\ UNCHANGED <<fatal, shutdownSteps, loop>>
    /\ UNCHANGED <<contacts, contactNicknames, obj, closedChans, tasks, conversations,
                   readOffset, reads, events, persisted, shutdownCalls, worker, hand,
                   now, ticks, nextMid>>

\* The worker's garbage-collection timer fires: garbageCollectConversations
\* runs with conversationsMutex taken (215).
GCTick ==
    /\ loop = "running"
    /\ worker = <<>>
    /\ MutexFree
    /\ conversations' = garbageCollect(conversations, now)
    /\ UNCHANGED <<contacts, contactNicknames, obj, closedChans, tasks, sendMap, readOffset,
                   reads, events, persisted, loop, fatal, shutdownSteps, shutdownCalls,
                   worker, hand, now, ticks, nextMid, nextTid>>

\* time.Now() advances.
Tick(d) ==
    /\ ticks < MaxTicks
    /\ now' = now + d
    /\ ticks' = ticks + 1
    /\ UNCHANGED <<contacts, contactNicknames, obj, closedChans, tasks, conversations,
                   sendMap, readOffset, reads, events, persisted, loop, fatal, shutdownSteps,
                   shutdownCalls, worker, hand, nextMid, nextTid>>

\* eventSinkWorker, lines 201-205: the oldest event of eventCh is taken.  The
\* goroutine returns once the halt channel is closed.
EventTake ==
    /\ loop \notin {"panicked", "halted"}
    /\ hand = <<>>
    /\ events # <<>>
    /\ hand' = <<Head(events)>>
    /\ events' = Tail(events)
    /\ UNCHANGED <<contacts, contactNicknames, obj, closedChans, tasks, conversations,
                   sendMap, readOffset, reads, persisted, loop, fatal, shutdownSteps,
                   shutdownCalls, worker, now, ticks, nextMid, nextTid>>

\* eventSinkWorker, lines 206-210: the subscriber receives the event taken.
EventSink ==
    /\ loop \notin {"panicked", "halted"}
    /\ hand # <<>>
    /\ hand' = <<>>
    /\ UNCHANGED <<contacts, contactNicknames, obj, closedChans, tasks, conversations, events,
                   sendMap, readOffset, reads, persisted, loop, fatal, shutdownSteps,
                   shutdownCalls, worker, now, ticks, nextMid, nextTid>>

\* The handlers the worker can be followed into: those that write what
\* another goroutine's c.marshal() reads, and garbageCollectSendMap.
Enters(tag) ==
    \/ marshalRacing(tag) # {}
    \/ marshalMapRace(tag)
    \/ tag[1] = "garbageCollectSendMap"

\* The worker takes an operation or an event and enters its handler: up to
\* the writes another goroutine's marshal races with (for doSendMessage,
\* past the filing of the message with conversationsMutex taken, 501-507),
\* or up to the Delete of garbageCollectSendMap (618).
Enter(tag) ==
    /\ loop = "running"
    /\ worker = <<>>
    /\ IF tag[1] = "createContact"
       THEN FreeRefs # {} /\ tag[7] = Min(FreeRefs)
       ELSE TRUE
    /\ IF tag[1] = "doSendMessage" THEN MutexFree ELSE TRUE
    /\ Enters(tag)
    /\ worker' = tag
    /\ UNCHANGED <<contacts, contactNicknames, obj, closedChans, tasks, conversations,
                   sendMap, readOffset, reads, events, persisted, loop, fatal, shutdownSteps,
                   hand, now, ticks, nextMid, nextTid>>
    /\ Observe

(***************************************************************************)
(* Shutdown.                                                               *)
(***************************************************************************)
\* haltKeyExchanges: the channels closed.
haltKeyExchanges(cs, o) ==
    {o[cs[i]].pandaShutdownChan :
        i \in {j \in DOMAIN cs : o[cs[j]].IsPending /\ o[cs[j]].pandaShutdownChan # NULL}}

\* Shutdown, lines 389-391: what it stops once Halt has returned.
ShutdownOrderPersisterFirst == <<"persister", "session", "fatalErrCh">>
ShutdownOrder == <<"session", "persister", "fatalErrCh">>

\* shutdownSteps once step is done.
Done(step) ==
    IF \E k \in 1..Len(shutdownSteps) : shutdownSteps[k] = step
    THEN shutdownSteps
    ELSE Append(shutdownSteps, step)

\* The watcher goroutine of Start (184-191) has received an error from
\* fatalErrCh and has not called Shutdown yet.
watcherCalls ==
    /\ fatal
    /\ \A k \in DOMAIN shutdownCalls : shutdownCalls[k].by # "watcher"

\* Shutdown is called, by the user or by the watcher of fatalErrCh: its
\* c.save() calls c.marshal(), which starts to range over c.contacts on the
\* caller's goroutine (lines 387, 345, 357).
Shutdown(by) ==
    /\ loop # "panicked"
    /\ Len(shutdownCalls) < MaxCalls
    /\ IF by = "watcher" THEN watcherCalls ELSE TRUE
    /\ shutdownCalls' = Append(shutdownCalls,
                               [ShutdownCall(by, 357) EXCEPT !.todo = Range(contacts)])
    /\ UNCHANGED <<contacts, contactNicknames, obj, closedChans, tasks, conversations,
                   sendMap, readOffset, reads, events, persisted, loop, fatal, shutdownSteps,
                   worker, hand, now, ticks, nextMid, nextTid>>

\* marshal, lines 357-359, in call k of Shutdown: the range reaches one more
\* entry of c.contacts and appends its Contact pointer.  An entry inserted
\* since the range started is reached or not.  No lock is held: when the
\* worker is writing the map, the runtime can end the process instead, with
\* "concurrent map iteration and map write".
ShutdownRange(k) ==
    /\ loop # "panicked"
    /\ k \in DOMAIN shutdownCalls
    /\ shutdownCalls[k].pc = 357
    /\ \/ /\ \E r \in (Range(contacts)
                        \cup (IF worker = <<>> THEN {} ELSE rangeInserted(worker)))
                       \ shutdownCalls[k].Contacts :
               shutdownCalls' = [shutdownCalls EXCEPT ![k].Contacts = @ \cup {r},
                                                      ![k].todo = @ \ {r}]
          /\ UNCHANGED loop
       \/ /\ worker # <<>>
          /\ marshalMapRace(worker)
          /\ loop' = "panicked"
          /\ UNCHANGED shutdownCalls
    /\ UNCHANGED <<contacts, contactNicknames, obj, closedChans, tasks, conversations,
                   sendMap, readOffset, reads, events, persisted, fatal, shutdownSteps,
                   worker, hand, now, ticks, nextMid, nextTid>>

\* marshal, line 357, in call k of Shutdown: the range ends when it has
\* reached every entry that has been in the map since it started.
ShutdownRangeEnd(k) ==
    /\ loop # "panicked"
    /\ k \in DOMAIN shutdownCalls
    /\ shutdownCalls[k].pc = 357
    /\ shutdownCalls[k].todo \subseteq (IF worker = <<>> THEN {} ELSE rangeDeleted(worker))
    /\ shutdownCalls' = [shutdownCalls EXCEPT ![k].pc = 366, ![k].todo = {}]
    /\ UNCHANGED <<contacts, contactNicknames, obj, closedChans, tasks, conversations,
                   sendMap, readOffset, reads, events, persisted, loop, fatal, shutdownSteps,
                   worker, hand, now, ticks, nextMid, nextTid>>

\* marshal, lines 366-368, in call k of Shutdown: GetAllConversations takes
\* and releases conversationsMutex, then marshal takes it.  The call waits
\* while another call holds it, and for ever when the worker sits in a
\* handler that never releases it.  From here to the end of the encoding it
\* can read what the memory holds.
ShutdownLock(k) ==
    /\ loop \notin {"panicked", "deadlocked"}
    /\ k \in DOMAIN shutdownCalls
    /\ shutdownCalls[k].pc = 366
    /\ MutexFree
    /\ shutdownCalls' = [shutdownCalls EXCEPT ![k] =
            [@ EXCEPT !.pc = 370,
                      !.objs = [r \in shutdownCalls[k].Contacts |->
                                   FieldValues(Versions(Visible, r))],
                      !.convs = {v.conv : v \in Visible},
                      !.offs = {v.off : v \in Visible}]]
    /\ UNCHANGED <<contacts, contactNicknames, obj, closedChans, tasks, conversations,
                   sendMap, readOffset, reads, events, persisted, loop, fatal, shutdownSteps,
                   worker, hand, now, ticks, nextMid, nextTid>>

\* The Contacts an encoding can produce that reads each field once, while
\* the fields have the values V one after the other.
Mixes(V) ==
    [id : V.id, Nickname : V.Nickname, IsPending : V.IsPending,
     keyExchange : V.keyExchange, pandaKeyExchange : V.pandaKeyExchange,
     pandaResult : V.pandaResult, pandaShutdownChan : V.pandaShutdownChan,
     spoolWriteDescriptor : V.spoolWriteDescriptor, UnACKed : V.UnACKed,
     ratchet : V.ratchet, ratchetOps : V.ratchetOps]

\* marshal, line 370, in call k of Shutdown: cbor.Marshal has encoded the
\* contacts collected, the conversations and the read descriptor, each as it
\* was at some time since line 368, and the mutex is released.  The Contact
\* objects no map holds any more are garbage once they are encoded.
ShutdownMarshal(k) ==
    /\ loop # "panicked"
    /\ k \in DOMAIN shutdownCalls
    /\ shutdownCalls[k].pc = 370
    /\ LET call == shutdownCalls[k]
           list == call.Contacts
           read == {o \in [list -> UNION {Mixes(call.objs[r]) : r \in list}] :
                        \A r \in list : o[r] \in Mixes(call.objs[r])}
       IN \E o \in read : \E conv \in call.convs : \E off \in call.offs :
             shutdownCalls' = [shutdownCalls EXCEPT ![k] =
                 [ShutdownCall(call.by, 349) EXCEPT
                     !.serialized = <<cborMarshal(list, o, conv, off)>>]]
    /\ obj' = CollectHeld(obj, contacts, contactNicknames, shutdownCalls')
    /\ UNCHANGED <<contacts, contactNicknames, closedChans, tasks, conversations,
                   sendMap, readOffset, reads, events, persisted, loop, fatal, shutdownSteps,
                   worker, hand, now, ticks, nextMid, nextTid>>

\* StateWriter.writeState once the state writer is halted: it writes nothing
\* and returns, or returns an error.
writeStateHalted == {"nil", "error"}

\* save, lines 349-352, in call k of Shutdown: stateWorker.writeState takes
\* the serialized state; save panics when it returns an error.
ShutdownSave(k) ==
    /\ loop # "panicked"
    /\ k \in DOMAIN shutdownCalls
    /\ shutdownCalls[k].pc = 349
    /\ IF \E n \in 1..Len(shutdownSteps) : shutdownSteps[n] = "persister"
       THEN \E err \in writeStateHalted :
               IF err = "nil"
               THEN /\ shutdownCalls' = [shutdownCalls EXCEPT ![k] = ShutdownCall(@.by, 388)]
                    /\ UNCHANGED <<persisted, loop, shutdownSteps>>
               ELSE /\ loop' = "panicked"
                    /\ UNCHANGED <<persisted, shutdownCalls, shutdownSteps>>
       ELSE /\ persisted' = shutdownCalls[k].serialized[1]
            /\ shutdownCalls' = [shutdownCalls EXCEPT ![k] = ShutdownCall(@.by, 388)]
            /\ shutdownSteps' = Done("save")
            /\ UNCHANGED loop
    /\ UNCHANGED <<contacts, contactNicknames, obj, closedChans, tasks, conversations,
                   sendMap, readOffset, reads, events, fatal, worker, hand, now, ticks,
                   nextMid, nextTid>>

\* A call of Shutdown is in Halt (388), which has closed the halt channel
\* and waits for the worker: between two handlers the worker halts the key
\* exchanges and returns.
WorkerHalt ==
    /\ loop = "running"
    /\ worker = <<>>
    /\ \E k \in DOMAIN shutdownCalls : shutdownCalls[k].pc = 388
    /\ closedChans' = closedChans \cup haltKeyExchanges(contacts, obj)
    /\ loop' = "halted"
    /\ shutdownSteps' = shutdownSteps \o <<"keyExchanges", "worker">>
    \* eventSinkWorker returns at line 203 or 209: an event it holds is lost
    /\ hand' = <<>>
    /\ UNCHANGED <<contacts, contactNicknames, obj, tasks, conversations, sendMap,
                   readOffset, reads, events, persisted, fatal, shutdownCalls, worker,
                   now, ticks, nextMid, nextTid>>

\* Call k of Shutdown goes on by one line: Halt returns (388), then
\* client.Shutdown (389), stateWorker.Halt (390) and close(fatalErrCh) (391),
\* which panics when the channel is closed already.
ShutdownStep(k) ==
    /\ loop = "halted"
    /\ k \in DOMAIN shutdownCalls
    /\ shutdownCalls[k].pc \in 388..391
    /\ LET pc == shutdownCalls[k].pc
           closed == \E n \in 1..Len(shutdownSteps) : shutdownSteps[n] = "fatalErrCh"
       IN IF pc = 391 /\ closed
          THEN /\ loop' = "panicked"
               /\ UNCHANGED <<shutdownCalls, shutdownSteps>>
          ELSE /\ shutdownCalls' = [shutdownCalls EXCEPT ![k] = ShutdownCall(@.by, pc + 1)]
               /\ shutdownSteps' = IF pc = 388 THEN shutdownSteps
                                   ELSE Done(ShutdownOrder[pc - 388])
               /\ UNCHANGED loop
    /\ UNCHANGED <<contacts, contactNicknames, obj, closedChans, tasks, conversations,
                   sendMap, readOffset, reads, events, persisted, fatal, worker, hand,
                   now, ticks, nextMid, nextTid>>

(***************************************************************************)
(* The client after NewClientAndRemoteSpool and Start.                     *)
(***************************************************************************)
Init ==
    /\ contacts = EmptyMap
    /\ contactNicknames = EmptyMap
    /\ obj = EmptyMap
    /\ closedChans = {}
    /\ tasks = {}
    /\ conversations = EmptyMap
    /\ sendMap = EmptyMap
    /\ readOffset = InitialReadOffset
    /\ reads = <<>>
    /\ events = <<>>
    /\ persisted = marshal(EmptyMap, EmptyMap, EmptyMap, InitialReadOffset)
    /\ loop = "running"
    /\ fatal = FALSE
    /\ shutdownSteps = <<>>
    /\ shutdownCalls = <<>>
    /\ worker = <<>>
    /\ hand = <<>>
    /\ now = 0
    /\ ticks = 0
    /\ nextMid = 1
    /\ nextTid = 1

\* The subscriber of the contact store's runs keeps up with the events.
SinkKeepsUp == Len(events') + Len(hand') <= MaxWaiting

\* The subscriber is ready: eventSinkWorker hands an event over before the
\* worker handles the next operation.
SinkPrompt == hand = <<>>

\* The subscriber has received every event before the worker emits the next.
SinkIdle == events = <<>> /\ hand = <<>>

\* What can fail in createContact: nothing, NewContact, GetPandaConfig or
\* panda.NewKeyExchange.
AddFaults ==
    {<<FALSE, FALSE, FALSE>>, <<TRUE, FALSE, FALSE>>,
     <<FALSE, TRUE, FALSE>>, <<FALSE, FALSE, TRUE>>}

\* The contact store, for two nicknames whose key exchanges are pending.
NextContacts ==
    \/ \E n \in Nicks : \E id \in Ids : \E f \in AddFaults :
          AddContact(n, id, f[1], f[2], f[3]) /\ SinkKeepsUp /\ SinkPrompt
    \/ \E n \in Nicks : RemoveContact(n) /\ SinkPrompt
    \/ \E t \in tasks : TaskExit(t) /\ SinkPrompt
    \/ EventTake
    \/ EventSink

SpecContacts == Init /\ [][NextContacts]_vars

\* The key exchange of one contact nickname, with every kind of update.
NextKx ==
    \/ \E id \in Ids : AddContact(Peer, id, FALSE, FALSE, FALSE)
    \/ RemoveContact(Peer)
    \/ \E t \in tasks : \E kind \in UpdateKinds : \E blob \in KxBlobs : \E cfgNil \in BOOLEAN :
          PandaUpdate(t, kind, blob, cfgNil) /\ SinkKeepsUp
    \/ processPANDAUpdateSave
    \/ \E t \in tasks : TaskExit(t)
    \/ EventTake
    \/ EventSink

SpecKx == Init /\ [][NextKx]_vars

\* The send pipeline and the session's events, for one contact nickname and
\* one unknown nickname.
NextSend ==
    \/ AddContact(Peer, 1, FALSE, FALSE, FALSE) /\ SinkPrompt
    \/ \E t \in tasks : \E kind \in {"good", "unparseable"} : PandaUpdate(t, kind, InitialKx, FALSE) /\ SinkPrompt
    \/ processPANDAUpdateSave
    \/ \E n \in SendNicks : \E sendErr \in BOOLEAN : \E failAt \in {0, 1} :
          SendMessage(n, 1, sendErr, failAt) /\ SinkPrompt
    \/ \E tid \in Tids : HandleSent(tid) /\ SinkPrompt
    \/ \E tid \in Tids : \E kind \in {"error", "ok"} : HandleReply(tid, kind) /\ SinkPrompt
    \/ \E tid \in Tids : HandleGC(tid) /\ SinkPrompt
    \/ GCTick /\ SinkPrompt
    \/ Tick(MessageExpirationDuration + 1) /\ SinkPrompt
    \/ EventTake
    \/ EventSink

SpecSend == Init /\ [][NextSend]_vars

\* The SendTracker: one contact whose key exchange completes, a message
\* sent to it, one read of the spool, and the replies and garbage-collect
\* events of the session for the transport ids.
NextTracker ==
    \/ AddContact(Peer, 1, FALSE, FALSE, FALSE) /\ SinkPrompt
    \/ \E t \in tasks : PandaUpdate(t, "good", InitialKx, FALSE) /\ SinkPrompt
    \/ processPANDAUpdateSave
    \/ SendMessage(Peer, 1, FALSE, 0) /\ SinkPrompt
    \/ ReadInbox(FALSE, FALSE) /\ nextTid = 1
    \/ \E tid \in Tids : \E kind \in {"error", "ok"} : HandleReply(tid, kind) /\ SinkPrompt
    \/ \E tid \in Tids : Enter(<<"garbageCollectSendMap", tid>>)
    \/ \E tid \in Tids : HandleGC(tid)
    \/ EventTake
    \/ EventSink

SpecTracker == Init /\ [][NextTracker]_vars

\* The user calls Shutdown once.
UserCalls == \A k \in DOMAIN shutdownCalls : shutdownCalls[k].by # "user"

\* Shutdown, called by the user and, after a fatal error, by the watcher of
\* fatalErrCh, while a contact is added and removed and its key exchange
\* times out and is restarted.
NextShutdown ==
    \/ AddContact(Peer, 1, FALSE, FALSE, FALSE) /\ SinkIdle
    \/ RemoveContact(Peer) /\ SinkIdle
    \/ \E t \in tasks : PandaUpdate(t, "timeout", InitialKx, FALSE) /\ SinkIdle
    \/ createContactSave
    \/ doContactRemovalSave
    \/ processPANDAUpdateSave
    \/ \E t \in tasks : TaskExit(t)
    \/ ReadInbox(TRUE, FALSE) /\ SinkIdle
    \/ \E ref \in Refs : Enter(<<"createContact", Peer, 1, FALSE, FALSE, FALSE, ref>>)
    \/ Enter(<<"doContactRemoval", Peer>>)
    \/ \E t \in tasks : Enter(<<"processPANDAUpdate", t, "timeout", InitialKx, FALSE>>)
    \/ EventTake
    \/ EventSink
    \/ Shutdown("user") /\ UserCalls /\ SinkIdle
    \/ Shutdown("watcher")
    \/ \E k \in 1..MaxCalls : ShutdownRange(k)
    \/ \E k \in 1..MaxCalls : ShutdownRangeEnd(k)
    \/ \E k \in 1..MaxCalls : ShutdownLock(k)
    \/ \E k \in 1..MaxCalls : ShutdownMarshal(k)
    \/ \E k \in 1..MaxCalls : ShutdownSave(k)
    \/ WorkerHalt
    \/ \E k \in 1..MaxCalls : ShutdownStep(k)

SpecShutdown == Init /\ [][NextShutdown]_vars

\* The ciphertexts the spool holds in the runs beside Shutdown: those whose
\* plaintext is a well-formed frame.
RaceCiphertexts == {ct \in Ciphertexts : ct.frameOk}

\* Every OK read response handled carried the message at the read offset,
\* with one of these ciphertexts.
TipReads ==
    \A n \in 1..Len(reads) : reads[n].id = reads[n].at /\ reads[n].ct \in RaceCiphertexts

\* Messages sent and the spool read while one call of Shutdown saves the
\* state: one contact whose key exchange completes, one read request at a
\* time.  The worker is followed into each of its handlers.
NextRace ==
    \/ AddContact(Peer, 1, FALSE, FALSE, FALSE) /\ SinkIdle
    \/ \E t \in tasks : PandaUpdate(t, "good", InitialKx, FALSE) /\ SinkIdle
    \/ createContactSave
    \/ processPANDAUpdateSave
    \/ \E sendErr \in BOOLEAN : SendMessage(Peer, 1, sendErr, 0)
    \/ ReadInbox(FALSE, FALSE) /\ sendMap = EmptyMap
    \/ \E tid \in DOMAIN sendMap : HandleReply(tid, "ok") /\ SinkIdle /\ TipReads'
    \/ \E ref \in Refs : Enter(<<"createContact", Peer, 1, FALSE, FALSE, FALSE, ref>>)
    \/ \E t \in tasks : Enter(<<"processPANDAUpdate", t, "good", InitialKx, FALSE>>)
    \/ \E sendErr \in BOOLEAN : \E out \in doSendMessageRetransmit(Peer, 0) :
          Enter(<<"doSendMessage", Peer, 1, sendErr, 0, out>>)
    \/ \E tid \in DOMAIN sendMap : \E ct \in RaceCiphertexts : \E i \in {0} \cup Ids :
          Enter(<<"handleReply", tid, readOffset, ct, i>>)
    \/ EventTake
    \/ EventSink
    \/ Shutdown("user") /\ shutdownCalls = <<>>
    \/ ShutdownRange(1)
    \/ ShutdownRangeEnd(1)
    \/ ShutdownLock(1)
    \/ ShutdownMarshal(1)
    \/ ShutdownSave(1)

SpecRace == Init /\ [][NextRace]_vars

\* Messages of every length sent to one contact, before and after its key
\* exchange completes, and to a nickname that is no contact.
NextFrame ==
    \/ AddContact(Peer, 1, FALSE, FALSE, FALSE)
    \/ \E t \in tasks : PandaUpdate(t, "good", InitialKx, FALSE)
    \/ processPANDAUpdateSave
    \/ \E n \in SendNicks : \E len \in MsgLens : \E sendErr \in BOOLEAN :
          SendMessage(n, len, sendErr, 0)
    \/ EventTake
    \/ EventSink

SpecFrame == Init /\ [][NextFrame]_vars

\* Reads of the spool while two contacts are added and their key exchanges
\* complete.  One read request is sent; the responses to it carry any
\* message id and any ciphertext.
NextDecrypt ==
    \/ AddContact(Peer, 1, FALSE, FALSE, FALSE) /\ SinkKeepsUp
    \/ AddContact("bob", 2, FALSE, FALSE, FALSE) /\ SinkKeepsUp
    \/ \E t \in tasks : PandaUpdate(t, "good", InitialKx, FALSE) /\ SinkKeepsUp
    \/ processPANDAUpdateSave
    \/ ReadInbox(FALSE, FALSE) /\ sendMap = EmptyMap
    \/ \E tid \in DOMAIN sendMap : HandleReply(tid, "ok") /\ SinkKeepsUp
    \/ EventTake
    \/ EventSink

SpecDecrypt == Init /\ [][NextDecrypt]_vars

\* Contacts removed and added again while their messages are in flight.
NextInFlight ==
    \/ AddContact(Peer, 1, FALSE, FALSE, FALSE) /\ SinkKeepsUp
    \/ RemoveContact(Peer)
    \/ \E t \in tasks : PandaUpdate(t, "good", InitialKx, FALSE) /\ SinkKeepsUp
    \/ processPANDAUpdateSave
    \/ \E t \in tasks : TaskExit(t)
    \/ \E sendErr \in BOOLEAN : SendMessage(Peer, 1, sendErr, 0)
    \/ \E tid \in DOMAIN sendMap : HandleSent(tid) /\ SinkKeepsUp
    \/ \E tid \in DOMAIN sendMap : HandleReply(tid, "ok") /\ SinkKeepsUp
    \/ EventTake
    \/ EventSink

SpecInFlight == Init /\ [][NextInFlight]_vars

(***************************************************************************)
(* doRetransmit as a function of the conversation it is given.             *)
(***************************************************************************)
\* The outbound messages a conversation can hold: not yet sent, sent, or
\* delivered, with one of two timestamps.
RetransmitMessages ==
    {[OutMessage(ts) EXCEPT !.Ciphertext = Frame(1), !.Sent = k[1], !.Delivered = k[2]] :
        ts \in 0..1, k \in {<<FALSE, FALSE>>, <<TRUE, FALSE>>, <<TRUE, TRUE>>}}

\* The conversation maps of up to MaxConv messages.
RetransmitConvs == UNION {[1..n -> RetransmitMessages] : n \in 0..MaxConv}

\* An established contact whose in-flight window is full.
SaturatedContact ==
    [NewContactRec(Peer, 1, 1) EXCEPT !.IsPending = FALSE, !.keyExchange = FALSE,
                                      !.spoolWriteDescriptor = 1, !.ratchet = "keyed",
                                      !.UnACKed = MaxInFlight]

\* A client holding one saturated contact and any such conversation with it,
\* or none.
InitRetransmit ==
    /\ contacts = MapPut(EmptyMap, 1, 1)
    /\ contactNicknames = MapPut(EmptyMap, Peer, 1)
    /\ obj = MapPut(EmptyMap, 1, SaturatedContact)
    /\ closedChans = {}
    /\ tasks = {}
    /\ conversations \in {EmptyMap} \cup {MapPut(EmptyMap, Peer, cm) : cm \in RetransmitConvs}
    /\ sendMap = EmptyMap
    /\ readOffset = InitialReadOffset
    /\ reads = <<>>
    /\ events = <<>>
    /\ persisted = marshal(contacts, obj, conversations, readOffset)
    /\ loop = "running"
    /\ fatal = FALSE
    /\ shutdownSteps = <<>>
    /\ shutdownCalls = <<>>
    /\ worker = <<>>
    /\ hand = <<>>
    /\ now = 1
    /\ ticks = 0
    /\ nextMid = MaxConv + 1
    /\ nextTid = 1

\* One call of doRetransmit for the contact, with a transport that accepts
\* every message.
Retransmit ==
    /\ loop = "running"
    /\ worker = <<>>
    /\ nextTid = 1
    /\ \E out \in doRetransmit(conversations, obj[contactNicknames[Peer]], 0) :
          /\ sendMap' = StoreResent(sendMap, Peer, out.resent, nextTid)
          /\ nextTid' = nextTid + Len(out.resent)
          /\ loop' = IF out.panic THEN "panicked" ELSE "running"
    /\ UNCHANGED <<contacts, contactNicknames, obj, closedChans, tasks, conversations,
                   readOffset, reads, events, persisted, fatal, shutdownSteps,
                   shutdownCalls, worker, hand, now, ticks, nextMid>>

SpecRetransmit == InitRetransmit /\ [][Retransmit]_vars

(***************************************************************************)
(* garbageCollectConversations as a function of the conversations and the  *)
(* clock.                                                                  *)
(***************************************************************************)
\* The messages a conversation can hold: inbound ones, and outbound ones
\* sent or not, delivered or not, with their ciphertext or without.
GCMessages ==
    {InMessage(ts) : ts \in 0..1}
    \cup {[OutMessage(ts) EXCEPT !.Sent = k[1], !.Delivered = k[2], !.Ciphertext = ct] :
            ts \in 0..1, k \in BOOLEAN \X BOOLEAN, ct \in {<<>>, Frame(1)}}

\* The conversation maps of up to MaxGC messages.
GCConvs == UNION {[1..n -> GCMessages] : n \in 0..MaxGC}

\* A client holding one established contact and any such conversation with
\* it, at the expiry of the older messages or one hour later.
InitGC ==
    /\ contacts = MapPut(EmptyMap, 1, 1)
    /\ contactNicknames = MapPut(EmptyMap, Peer, 1)
    /\ obj = MapPut(EmptyMap, 1, [SaturatedContact EXCEPT !.UnACKed = 0])
    /\ closedChans = {}
    /\ tasks = {}
    /\ conversations \in {MapPut(EmptyMap, Peer, cm) : cm \in GCConvs}
    /\ sendMap = EmptyMap
    /\ readOffset = InitialReadOffset
    /\ reads = <<>>
    /\ events = <<>>
    /\ persisted = marshal(contacts, obj, conversations, readOffset)
    /\ loop = "running"
    /\ fatal = FALSE
    /\ shutdownSteps = <<>>
    /\ shutdownCalls = <<>>
    /\ worker = <<>>
    /\ hand = <<>>
    /\ now \in {MessageExpirationDuration, MessageExpirationDuration + 1}
    /\ ticks = 0
    /\ nextMid = MaxGC + 1
    /\ nextTid = 1

SpecGC == InitGC /\ [][GCTick]_vars

(***************************************************************************)
(* Properties of the contact store.                                        *)
(***************************************************************************)
Injective(f) == \A x, y \in DOMAIN f : f[x] = f[y] => x = y

\* C1: after any sequence of add_contact and remove_contact operations,
\* failed ones included, the nickname index and the id index hold the same
\* contacts: same size, every contact filed under its own nickname and under
\* its own id, and no two keys of an index name the same contact.
C1_IndexesAgree ==
    /\ Cardinality(DOMAIN contactNicknames) = Cardinality(DOMAIN contacts)
    /\ Range(contactNicknames) = Range(contacts)
    /\ \A n \in DOMAIN contactNicknames : obj[contactNicknames[n]].Nickname = n
    /\ \A i \in DOMAIN contacts : obj[contacts[i]].id = i
    /\ Injective(contactNicknames)
    /\ Injective(contacts)

\* C1's case: a contact was removed while another one, added by an add_contact
\* that failed after filing it (no shutdown channel was ever closed for it, no
\* exchange blob was stored), is still in both indexes.
C1_Witness ==
    /\ closedChans # {}
    /\ \E n \in DOMAIN contactNicknames :
          /\ obj[contactNicknames[n]].keyExchange
          /\ obj[contactNicknames[n]].id \in DOMAIN contacts
    /\ Cardinality(DOMAIN contacts) = 1

\* C2: add_contact with a nickname that is already in the store fails with an
\* error and changes nothing: both indexes, the contacts' fields, the running
\* key exchanges and the persisted snapshot stay as they were.
C2_DuplicateAddChangesNothing ==
    [][(\E n \in DOMAIN contactNicknames : \E id \in Ids :
          \E newErr, cfgNil, kxErr \in BOOLEAN :
             AddContact(n, id, newErr, cfgNil, kxErr))
       => /\ UNCHANGED <<contacts, contactNicknames, obj, closedChans, tasks, persisted>>
          /\ events'[Len(events')].Err = "nickname exists"]_vars

\* C2's case: the error of a duplicate add_contact was reported for a
\* nickname that is still in the store.
C2_Witness ==
    \E k \in 1..Len(events) :
        /\ events[k].Err = "nickname exists"
        /\ events[k].Nickname \in DOMAIN contactNicknames

(***************************************************************************)
(* Properties of the key exchange.                                         *)
(***************************************************************************)
\* C3: every contact that is not pending has a spool write descriptor,
\* whatever key-exchange updates were processed for it.
C3_EstablishedHasDescriptor ==
    \A i \in DOMAIN contacts :
        ~obj[contacts[i]].IsPending => obj[contacts[i]].spoolWriteDescriptor # NULL

(***************************************************************************)
(* Properties of the send pipeline.                                        *)
(***************************************************************************)
\* The outbound messages of nick's conversation that were sent and are not
\* delivered yet.
SentUndelivered(nick) ==
    IF nick \in DOMAIN conversations
    THEN {m \in DOMAIN conversations[nick] :
            /\ conversations[nick][m].Outbound
            /\ conversations[nick][m].Sent
            /\ ~conversations[nick][m].Delivered}
    ELSE {}

\* C4: for every contact and in every reachable state UnACKed is at most
\* MaxInFlight; a send_message handled with UnACKed = MaxInFlight leaves it
\* there.
C4_UnACKedWithinWindow ==
    \A r \in DOMAIN obj : obj[r].UnACKed <= MaxInFlight

\* C4's case: a send_message was handled for a contact whose window was
\* full: its message is in the conversation beside the MaxInFlight ones in
\* flight, and the handler ended in doRetransmit.
C4_Witness ==
    /\ Peer \in DOMAIN contactNicknames
    /\ obj[contactNicknames[Peer]].UnACKed = MaxInFlight
    /\ Peer \in DOMAIN conversations
    /\ Cardinality(DOMAIN conversations[Peer]) = MaxInFlight + 1
    /\ loop = "panicked"

\* C6: every outbound message that is delivered is also sent.
C6_DeliveredImpliesSent ==
    \A n \in DOMAIN conversations : \A m \in DOMAIN conversations[n] :
        (conversations[n][m].Outbound /\ conversations[n][m].Delivered)
            => conversations[n][m].Sent

\* C7: for every contact, UnACKed is the number of outbound messages of its
\* conversation that are sent and not delivered.
C7_UnACKedCountsSentUndelivered ==
    \A n \in DOMAIN contactNicknames :
        obj[contactNicknames[n]].UnACKed = Cardinality(SentUndelivered(n))

\* C8: in the order the events are emitted, no MessageSent event for a
\* conversation message id comes after a MessageDelivered event for it.
C8_NoSentAfterDelivered ==
    \A i, j \in 1..Len(events) :
        (/\ i < j
         /\ events[i].type = "MessageDelivered"
         /\ events[j].type = "MessageSent"
         /\ events[i].Nickname = events[j].Nickname)
            => events[i].mid # events[j].mid

\* C10: send_message to a nickname that is not in the store, or whose contact
\* is pending, files the outbound message (not sent, not delivered) under
\* the conversation id and does nothing else: no transport submission, no
\* sendMap entry, no event, no ratchet step, no change of a contact.
C10_SendWithoutContactOnlyFiles ==
    [][\A n \in SendNicks :
          (/\ \/ n \notin DOMAIN contactNicknames
              \/ obj[contactNicknames[n]].IsPending
           /\ \E sendErr \in BOOLEAN : \E failAt \in 0..someLimit :
                 SendMessage(n, 1, sendErr, failAt))
          => /\ conversations' = ConvPut(conversations, n, nextMid, OutMessage(now))
             /\ UNCHANGED <<contacts, contactNicknames, obj, sendMap, events,
                            nextTid, persisted, loop>>]_vars

\* C10's case: a message was filed for the unknown nickname and one for the
\* contact that is still pending.
C10_Witness ==
    /\ Peer \in DOMAIN contactNicknames
    /\ obj[contactNicknames[Peer]].IsPending
    /\ \A n \in SendNicks :
          /\ n \in DOMAIN conversations
          /\ \E m \in DOMAIN conversations[n] :
                conversations[n][m] = OutMessage(conversations[n][m].Timestamp)
    /\ sendMap = EmptyMap
    /\ loop = "running"

(***************************************************************************)
(* Properties of the receive pipeline and of the snapshot.                 *)
(***************************************************************************)
\* C5: the read offset never decreases, and every increase is by one and
\* belongs to a read response whose ciphertext was decrypted (the message
\* was filed and MessageReceived emitted).
C5_OffsetAdvancesOnDecrypt ==
    [][/\ readOffset' >= readOffset
       /\ readOffset' # readOffset =>
            /\ readOffset' = readOffset + 1
            /\ loop' = "running"
            /\ Len(events') = Len(events) + 1
            /\ events'[Len(events')].type = "MessageReceived"]_vars

\* C9: when the worker has handled an operation or event that changed the
\* contacts, the conversations or the read offset, and is back between two
\* handlers, the persisted snapshot is the state in memory.  (The
\* garbage-collection timer is not one of them.)
C9_PersistedAfterMutation ==
    [][(/\ Snapshot' # Snapshot \/ worker \in {AtSave, AtCreateSave, AtRemovalSave}
        /\ worker' = <<>>
        /\ loop' = "running"
        /\ ~GCTick)
       => persisted' = Snapshot']_vars

\* The inbound messages of all conversations, as <<nickname, message id>>.
Inbound(conv) ==
    {nm \in UNION {{<<n, m>> : m \in DOMAIN conv[n]} : n \in DOMAIN conv} :
        ~conv[nm[1]][nm[2]].Outbound}

\* The OK read response handled in the step, as logged at line 695.
Handled == reads'[Len(reads')]

\* Some contact that is not pending decrypts ct.
Decryptable(ct) ==
    \E i \in DOMAIN contacts : ~obj[contacts[i]].IsPending /\ Decrypts(obj, contacts[i], ct)

\* The step neither changes the state nor emits an event.
Dropped ==
    UNCHANGED <<readOffset, conversations, events, obj, contacts, contactNicknames,
                persisted, loop, fatal, shutdownSteps, nextMid>>

\* The step takes the tip: the read offset goes up by one, one inbound
\* message is filed and one MessageReceived is emitted.
TipTaken ==
    /\ readOffset' = readOffset + 1
    /\ Cardinality(Inbound(conversations')) = Cardinality(Inbound(conversations)) + 1
    /\ Len(events') = Len(events) + 1
    /\ events'[Len(events')].type = "MessageReceived"
    /\ loop' = "running"

C12_TipNeverPanics ==
    [][\A tid \in DOMAIN sendMap :
          (/\ sendMap[tid].Nickname = User
           /\ HandleReply(tid, "ok")
           /\ readOffset' # readOffset)
          => loop' # "panicked"]_vars

\* C13: every key-exchange task that is running for a contact that was
\* removed has been signalled to stop, also when a Timeout update restarted
\* it before the removal.
C13_RemovedContactTaskCancelled ==
    \A t \in tasks : t.id \notin DOMAIN contacts => t.chan \in closedChans

(***************************************************************************)
(* Properties of Shutdown.                                                 *)
(***************************************************************************)
IsPrefix(p, q) == Len(p) <= Len(q) /\ SubSeq(q, 1, Len(p)) = p

\* C14: shutdown stops the components in the order key-exchange tasks,
\* worker, session, persister, fatal channel; when the key exchanges are
\* halted, every task running for a pending contact is signalled to stop;
\* once the persister is halted the snapshot is never written again.
C14_ShutdownOrder ==
    [][/\ IsPrefix(shutdownSteps', <<"save", "keyExchanges", "worker", "session",
                                     "persister", "fatalErrCh">>)
       /\ (\E k \in 1..Len(shutdownSteps) : shutdownSteps[k] = "persister")
             => persisted' = persisted
       /\ (\E k \in 1..Len(shutdownSteps') : shutdownSteps'[k] = "keyExchanges")
             => \A t \in tasks' :
                   (t.id \in DOMAIN contacts' /\ obj'[contacts'[t.id]].IsPending)
                      => t.chan \in closedChans']_vars

\* C15: sending a message longer than DoubleRatchetPayloadLength - 4 bytes
\* encrypts nothing, submits nothing to the transport and leaves every
\* contact's unacked count as it was, and every message submitted to the
\* transport carries as many bytes as its length prefix announces.
C15_LongPayloadRejected ==
    [][/\ \A len \in MsgLens :
            (/\ len > DoubleRatchetPayloadLength - 4
             /\ \E sendErr \in BOOLEAN : SendMessage(Peer, len, sendErr, 0))
            => UNCHANGED <<obj, sendMap, nextTid>>
       /\ \A tid \in DOMAIN sendMap' :
            LET d == sendMap'[tid]
            IN HasMessage(conversations', d.Nickname, d.MessageID)
               => LET ct == conversations'[d.Nickname][d.MessageID].Ciphertext
                  IN ct # <<>> => ct[1] <= ct[2]]_vars

\* C16: retransmission for a contact with n sent and undelivered outbound
\* messages, whatever n is, does not fail, stores exactly min(4, n) new
\* SendTracker entries, each for one of the oldest such messages, and leaves
\* the contacts, their unacked counts included, as they were.
C16_RetransmitOldestFour ==
    [][Retransmit =>
        LET convMap == IF Peer \in DOMAIN conversations THEN conversations[Peer] ELSE EmptyMap
            rTx == doRetransmitFilter(convMap)
            n == Cardinality(rTx)
            new == (DOMAIN sendMap') \ (DOMAIN sendMap)
            resent == {sendMap'[t].MessageID : t \in new}
        IN /\ loop' = "running"
           /\ Cardinality(new) = Min({someLimit, n})
           /\ Cardinality(resent) = Min({someLimit, n})
           /\ resent \subseteq rTx
           /\ \A t \in new : sendMap'[t].Nickname = Peer
           /\ \A a \in resent : \A b \in rTx \ resent : ~Less(convMap, b, a)
           /\ obj' = obj]_vars

\* C17: a Timeout update for a pending contact restarts the key-exchange
\* task and is not surfaced: the contact stays pending, no event is emitted,
\* no failure result is stored on the contact and its cancel handle stays
\* set.
C17_TimeoutNotSurfaced ==
    [][\A t \in tasks :
         (/\ t.id \in DOMAIN contacts
          /\ obj[contacts[t.id]].IsPending
          /\ PandaUpdate(t, "timeout", InitialKx, FALSE))
         => LET before == obj[contacts[t.id]]
                after == obj'[contacts[t.id]]
            IN /\ \E r \in tasks' : r.id = t.id
               /\ after.IsPending
               /\ events' = events
               /\ after.pandaResult = before.pandaResult
               /\ after.pandaShutdownChan = before.pandaShutdownChan
               /\ after.pandaShutdownChan # NULL]_vars

\* C18: a contact stops being pending only in the step of a Success update
\* whose result parses and whose key exchange the ratchet accepts; a Failure
\* update, and a Success update that does not parse or that the ratchet
\* rejects, leaves the contact present and pending and emits a
\* KeyExchangeCompleted event carrying the error.
C18_PendingLeftOnlyBySuccess ==
    [][/\ \A id \in (DOMAIN contacts) \cap (DOMAIN contacts') :
            (obj[contacts[id]].IsPending /\ ~obj'[contacts'[id]].IsPending)
            => \E t \in tasks : \E blob \in KxBlobs : \E cfgNil \in BOOLEAN :
                  t.id = id /\ PandaUpdate(t, "good", blob, cfgNil)
       /\ \A t \in tasks : \A kind \in {"failure", "unparseable", "rejected"} :
            (/\ t.id \in DOMAIN contacts
             /\ obj[contacts[t.id]].IsPending
             /\ \E blob \in KxBlobs : \E cfgNil \in BOOLEAN : PandaUpdate(t, kind, blob, cfgNil))
            => /\ t.id \in DOMAIN contacts'
               /\ obj'[contacts'[t.id]].IsPending
               /\ Len(events') = Len(events) + 1
               /\ events'[Len(events')].type = "KeyExchangeCompleted"
               /\ events'[Len(events')].Err # ""]_vars

\* C19: a Progress update for a pending contact whose bytes equal the stored
\* exchange state emits exactly one KeyExchangeCompleted event carrying an
\* error, leaves the contact as it was (pending, same exchange state, same
\* cancel handle) and leaves the task running; a Progress update with other
\* bytes replaces the stored exchange state, persists and emits no event.
C19_ProgressEcho ==
    [][\A t \in tasks : \A blob \in KxBlobs :
         (/\ t.id \in DOMAIN contacts
          /\ obj[contacts[t.id]].IsPending
          /\ \E cfgNil \in BOOLEAN : PandaUpdate(t, "progress", blob, cfgNil))
         => LET before == obj[contacts[t.id]]
                after == obj'[contacts[t.id]]
            IN IF before.pandaKeyExchange = blob
               THEN /\ Len(events') = Len(events) + 1
                    /\ SubSeq(events', 1, Len(events)) = events
                    /\ events'[Len(events')].type = "KeyExchangeCompleted"
                    /\ events'[Len(events')].Err # ""
                    /\ after = before
                    /\ t \in tasks'
               ELSE /\ after = [before EXCEPT !.pandaKeyExchange = blob]
                    /\ persisted' = marshal(contacts', obj', conversations', readOffset')
                    /\ events' = events]_vars

\* A pending contact whose exchange state was replaced by a Progress update
\* and then echoed by the next one, its task still running.
C19_Witness ==
    /\ \E i \in 1..Len(events) : events[i].Err = "echo"
    /\ \E t \in tasks :
         /\ t.id \in DOMAIN contacts
         /\ obj[contacts[t.id]].IsPending
         /\ obj[contacts[t.id]].pandaKeyExchange \in KxBlobs \ {InitialKx}
         /\ obj[contacts[t.id]].pandaShutdownChan = t.chan

\* C20: handling the response that carries the tip of the spool files a
\* message only for a contact that is not pending and whose ratchet decrypts
\* the ciphertext: at most one inbound message, under that contact's
\* nickname and a conversation id not in use, with exactly one
\* MessageReceived event for that nickname; when no such contact decrypts
\* the ciphertext no message is filed and no event is emitted.
C20_TrialDecryptFilesOne ==
    [][\A ct \in Ciphertexts :
         (/\ loop = "running"
          /\ \E tid \in DOMAIN sendMap :
                sendMap[tid].Nickname = User /\ sendMap' = sendMapDelete(sendMap, tid)
          /\ handleReplyRead(readOffset, ct)
          /\ UNCHANGED <<contacts, contactNicknames, closedChans, tasks, persisted,
                         now, ticks, nextTid>>)
         => LET able == {i \in DOMAIN contacts :
                            ~obj[contacts[i]].IsPending /\ Decrypts(obj, contacts[i], ct)}
            IN \/ conversations' = conversations /\ events' = events /\ nextMid' = nextMid
               \/ \E i \in able :
                    LET nick == obj[contacts[i]].Nickname
                    IN /\ \A n \in DOMAIN conversations : nextMid \notin DOMAIN conversations[n]
                       /\ conversations' = ConvPut(conversations, nick, nextMid, InMessage(now))
                       /\ events' = Append(events, MessageReceivedEvent(nick))]_vars

\* Two established contacts and one inbound message, filed for one of them,
\* with its MessageReceived event waiting.
C20_Witness ==
    /\ Cardinality({i \in DOMAIN contacts : ~obj[contacts[i]].IsPending}) = 2
    /\ Cardinality(Inbound(conversations)) = 1
    /\ \E i \in 1..Len(events) : events[i].type = "MessageReceived"

\* C21: a garbage-collection pass removes exactly the messages with
\* now > timestamp + MessageExpirationDuration; of the messages it keeps it
\* changes only the ciphertext of the outbound delivered ones, which it
\* empties; it changes no conversation's presence and no contact.
C21_GCRemovesExpiredOnly ==
    [][GCTick =>
        /\ DOMAIN conversations' = DOMAIN conversations
        /\ \A n \in DOMAIN conversations :
             /\ DOMAIN conversations'[n] =
                  {m \in DOMAIN conversations[n] :
                      ~(now > conversations[n][m].Timestamp + MessageExpirationDuration)}
             /\ \A m \in DOMAIN conversations'[n] :
                  conversations'[n][m] =
                      IF conversations[n][m].Outbound /\ conversations[n][m].Delivered
                      THEN [conversations[n][m] EXCEPT !.Ciphertext = <<>>]
                      ELSE conversations[n][m]
        /\ UNCHANGED <<contacts, contactNicknames, obj>>]_vars

\* A pass removed the older message of a conversation and kept the younger
\* one, outbound and delivered, at the very end of its life.
C21_Witness ==
    /\ Peer \in DOMAIN conversations
    /\ DOMAIN conversations[Peer] = {2}
    /\ conversations[Peer][2].Outbound
    /\ conversations[Peer][2].Delivered
    /\ conversations[Peer][2].Ciphertext = <<>>
    /\ now = conversations[Peer][2].Timestamp + MessageExpirationDuration

\* C22: once a reply for a tracked transport id, or a garbage-collect event
\* for it, has been handled, sendMap holds no entry for that transport id.
C22_TrackerDrained ==
    [][\A tid \in DOMAIN sendMap :
         (\/ \E kind \in ReplyKinds : HandleReply(tid, kind)
          \/ HandleGC(tid))
         => tid \notin DOMAIN sendMap']_vars

\* C23: handling a send-ack or an OK write reply for a tracked outbound
\* message that is still in its conversation completes: the worker keeps
\* running and the handler's event is emitted.
C23_HandlersComplete ==
    [][\A tid \in DOMAIN sendMap :
         (/\ sendMap[tid].Nickname # User
          /\ HasMessage(conversations, sendMap[tid].Nickname, sendMap[tid].MessageID)
          /\ (HandleSent(tid) \/ HandleReply(tid, "ok")))
         => /\ loop' = "running"
            /\ Len(events') = Len(events) + 1
            /\ events'[Len(events')].type \in {"MessageSent", "MessageDelivered"}]_vars

\* C24: whenever the running worker tracks a transport id for an outbound
\* message that is still in its conversation, so that an OK write reply for
\* it can arrive, the contact of that nickname exists and its unacked count
\* is positive.
C24_DeliveryNeverHitsBug ==
    \A tid \in DOMAIN sendMap :
        (/\ loop = "running"
         /\ sendMap[tid].Nickname # User
         /\ HasMessage(conversations, sendMap[tid].Nickname, sendMap[tid].MessageID))
        => /\ sendMap[tid].Nickname \in DOMAIN contactNicknames
           /\ obj[contactNicknames[sendMap[tid].Nickname]].UnACKed > 0

====
